---- MODULE Spec2Model ----
(***************************************************************************)
(* Model of saurlax/model_voxelization: the coordinate normalizer of       *)
(* load_model_system (src/src/model.rs), the rasterizer voxelize_triangle  *)
(* and the boundary-mesh extractor of create_voxelized_mesh                *)
(* (src/src/voxelization.rs), and the settings of ui_system                *)
(* (src/src/ui.rs).                                                        *)
(*                                                                         *)
(* Numbers.  An f32 is modelled as an exact rational <<n, d>> in lowest    *)
(* terms with d > 0, extended with the IEEE special values that division   *)
(* by zero produces: <<1, 0>> is +Inf, <<-1, 0>> is -Inf, <<0, 0>> is NaN. *)
(* Rounding to 24 bits is not modelled.  The range of an f32 is modelled   *)
(* in the normalizer, whose inputs are the coordinates of a file: a result *)
(* larger than F32_MAX is infinite there (see F32).  The voxelizer runs on *)
(* small dyadic or decimal values, far from the ends of the range.  A unit *)
(* vector, whose components are irrational in general, is kept as a        *)
(* direction with the square of its length (see normalize).                *)
(***************************************************************************)
EXTENDS Integers, Naturals, Sequences, FiniteSets, TLC

VARIABLES
    pc,             \* position of the modelled run
    octree_depth,   \* VoxelizationSettings.octree_depth / the octree_depth argument
    voxel_size,     \* the local voxel_size of create_voxelized_mesh
    positions,      \* model.mesh.positions: flat sequence, 3 f32 per vertex
    indices,        \* model.mesh.indices: flat sequence, 3 indices per triangle
    tri,            \* loop variable i of the triangle loop (0-based)
    filled_voxels,  \* HashSet<VoxelCoord>
    pending,        \* voxels the HashSet iterator has not yet produced
    cur,            \* the voxel_coord of the running iteration, or NoVoxel
    face,           \* loop variable i of the neighbour loop (0..6)
    vertices,       \* Vec<[f32; 3]>
    normals,        \* Vec<[f32; 3]>
    uvs,            \* Vec<[f32; 2]>
    mesh_indices,   \* Vec<u32>
    loaded_obj,     \* the sub-meshes as tobj::load_obj returned them
    obj_indices,    \* model.mesh.indices of each sub-mesh
    models,         \* `models`: the positions of each sub-mesh, transformed in place
    min_xyz,        \* <<min_x, min_y, min_z>>
    max_xyz,        \* <<max_x, max_y, max_z>>
    center_xyz,     \* <<center_x, center_y, center_z>>
    max_dimension,  \* the largest of size_x, size_y, size_z
    scale_factor,   \* scale_factor
    sub,            \* the sub-mesh the running loop is in (1-based)
    vtx,            \* loop variable i of the running vertex loop (0-based)
    path,           \* ModelResource.path, or NoPath
    loaded,         \* ModelResource.loaded
    entities,       \* the ModelMesh entities of the world
    commands,       \* the commands queued in this update, not yet applied
    label,          \* the voxel size the settings menu shows
    last_run        \* what the system run that led to this state did

\* the variables of create_voxelized_mesh
cvm_vars == <<octree_depth, voxel_size, positions, indices, tri, filled_voxels,
              pending, cur, face, vertices, normals, uvs, mesh_indices>>

\* the locals of the normalizer in load_model_system
load_vars == <<loaded_obj, obj_indices, models, min_xyz, max_xyz, center_xyz, max_dimension,
               scale_factor, sub, vtx>>

\* the resources and entities of the app
app_vars == <<path, loaded, entities, commands, label, last_run>>

vars == <<pc, cvm_vars, load_vars, app_vars>>

(***************************************************************************)
(* f32 arithmetic on extended rationals                                    *)
(***************************************************************************)
Abs(n) == IF n < 0 THEN -n ELSE n

Sign(n) == IF n > 0 THEN 1 ELSE IF n < 0 THEN -1 ELSE 0

RECURSIVE GCD(_, _)
GCD(a, b) == IF b = 0 THEN a ELSE GCD(b, a % b)

Rat(n, d) ==
    IF d = 0 THEN <<Sign(n), 0>>
    ELSE LET g == GCD(Abs(n), Abs(d))
         IN  <<(Sign(d) * n) \div g, Abs(d) \div g>>

R(n) == <<n, 1>>

NaN == <<0, 0>>

PosInf == <<1, 0>>

NegInf == <<-1, 0>>

IsNaN(a) == a = NaN

IsFinite(a) == a[2] # 0

RNeg(a) == <<-a[1], a[2]>>

RAdd(a, b) ==
    IF IsNaN(a) \/ IsNaN(b) THEN NaN
    ELSE IF a[2] = 0 /\ b[2] = 0 THEN (IF a = b THEN a ELSE NaN)
    ELSE IF a[2] = 0 THEN a
    ELSE IF b[2] = 0 THEN b
    ELSE Rat(a[1] * b[2] + b[1] * a[2], a[2] * b[2])

RSub(a, b) == RAdd(a, RNeg(b))

RMul(a, b) == Rat(a[1] * b[1], a[2] * b[2])

\* a / b; a finite non-zero value over zero is an infinity, 0/0 and Inf/Inf are NaN
RDiv(a, b) ==
    Rat(a[1] * b[2] * (IF b[1] < 0 THEN -1 ELSE 1), a[2] * Abs(b[1]))

\* a < b and a <= b; every comparison with NaN is false
RLt(a, b) ==
    /\ ~IsNaN(a)
    /\ ~IsNaN(b)
    /\ IF a[2] = 0 /\ b[2] = 0 THEN a[1] < b[1]
       ELSE a[1] * b[2] < b[1] * a[2]

RLe(a, b) ==
    /\ ~IsNaN(a)
    /\ ~IsNaN(b)
    /\ IF a[2] = 0 /\ b[2] = 0 THEN a[1] <= b[1]
       ELSE a[1] * b[2] <= b[1] * a[2]

\* f32::min and f32::max: when one operand is NaN the other is returned
RMin(a, b) == IF IsNaN(a) THEN b ELSE IF IsNaN(b) THEN a ELSE IF RLe(a, b) THEN a ELSE b

RMax(a, b) == IF IsNaN(a) THEN b ELSE IF IsNaN(b) THEN a ELSE IF RLe(b, a) THEN a ELSE b

RAbs(a) == <<Abs(a[1]), a[2]>>

\* f32::floor and f32::ceil; infinities and NaN are returned unchanged
RFloor(a) == IF a[2] = 0 THEN a ELSE R(a[1] \div a[2])

RCeil(a) == IF a[2] = 0 THEN a ELSE R(-((-a[1]) \div a[2]))

I32_MAX == 2147483647

\* `x as i32`: truncation toward zero, saturating at the i32 range, NaN to 0
AsI32(a) ==
    IF IsNaN(a) THEN 0
    ELSE IF a = PosInf THEN I32_MAX
    ELSE IF a = NegInf THEN -I32_MAX - 1
    ELSE IF a[1] >= 0 THEN a[1] \div a[2] ELSE -((-a[1]) \div a[2])

\* `n as f32` of an integer
AsF32(n) == R(n)

MaxI(a, b) == IF a >= b THEN a ELSE b

MinI(a, b) == IF a <= b THEN a ELSE b

(***************************************************************************)
(* glam::Vec3                                                              *)
(***************************************************************************)
Vec3(x, y, z) == <<x, y, z>>

VAdd(a, b) == <<RAdd(a[1], b[1]), RAdd(a[2], b[2]), RAdd(a[3], b[3])>>

VSub(a, b) == <<RSub(a[1], b[1]), RSub(a[2], b[2]), RSub(a[3], b[3])>>

Dot(a, b) == RAdd(RAdd(RMul(a[1], b[1]), RMul(a[2], b[2])), RMul(a[3], b[3]))

Cross(a, b) ==
    <<RSub(RMul(a[2], b[3]), RMul(b[2], a[3])),
      RSub(RMul(a[3], b[1]), RMul(b[3], a[1])),
      RSub(RMul(a[1], b[2]), RMul(b[1], a[2]))>>

LCM(a, b) == (a \div GCD(a, b)) * b

\* Vec3::normalize: self * (1 / self.length()).  The zero vector gives
\* 0 * Inf = NaN in every component.  Any other vector v gives v / |v|, kept
\* as [dir, len2]: the unit vector is dir / sqrt(len2), with dir the
\* primitive integer vector along v and len2 = |dir|^2.
unit_of(v) ==
    LET l == LCM(LCM(v[1][2], v[2][2]), v[3][2])
        w == [k \in 1..3 |-> v[k][1] * (l \div v[k][2])]
        g == GCD(GCD(Abs(w[1]), Abs(w[2])), Abs(w[3]))
        u == <<R(w[1] \div g), R(w[2] \div g), R(w[3] \div g)>>
    IN  [dir |-> u, len2 |-> Dot(u, u)]

NaNVec == [dir |-> <<NaN, NaN, NaN>>, len2 |-> R(1)]

\* Vec3::normalize_or_zero in the place of normalize: the zero vector stays zero
normalize_or_zero(v) ==
    IF \E k \in 1..3 : ~IsFinite(v[k]) THEN NaNVec
    ELSE IF Dot(v, v) = R(0) THEN [dir |-> <<R(0), R(0), R(0)>>, len2 |-> R(1)]
    ELSE unit_of(v)

normalize(v) ==
    IF \E k \in 1..3 : ~IsFinite(v[k]) THEN NaNVec
    ELSE IF Dot(v, v) = R(0) THEN NaNVec
    ELSE unit_of(v)

\* (a . n) for a unit vector n = [dir, len2]: the value is num / sqrt(len2)
DotUnit(a, n) == [num |-> Dot(a, n.dir), len2 |-> n.len2]

\* |x| of such a value
AbsUnit(x) == [num |-> RAbs(x.num), len2 |-> x.len2]

\* x <= b for x = num / sqrt(len2) with num >= 0 and b >= 0: squares compared
\* exactly; false when x is NaN
LeUnit(x, b) == RLe(RMul(x.num, x.num), RMul(RMul(b, b), x.len2))

(***************************************************************************)
(* VoxelizationSettings::voxel_size and the rasterizer                     *)
(***************************************************************************)
RECURSIVE Shl1(_)
\* 1 << d.  The literal 1 is an i32: the value is 2^d for d <= 30 and
\* i32::MIN for d = 31.  A shift by 32 or more panics in a build with
\* overflow checks and is not defined here.
Shl1(d) == IF d = 0 THEN 1 ELSE IF d = 31 THEN -I32_MAX - 1 ELSE 2 * Shl1(d - 1)

\* x / (n as f32) for an i32 n.  i32::MIN has no positive counterpart among
\* the 32-bit integers, so it is divided out as (n / 2) and then 2.
DivByI32(x, n) ==
    IF n = -I32_MAX - 1 THEN RDiv(RDiv(x, AsF32(n \div 2)), R(2))
    ELSE RDiv(x, AsF32(n))

\* 2.0 / (1 << self.octree_depth) as f32
voxel_size_of(depth) == DivByI32(R(2), Shl1(depth))

\* with the half extent 1.0 in place of the full extent 2.0
local_voxel_size_unit(depth) == DivByI32(R(1), Shl1(depth))

\* the same expression at the head of create_voxelized_mesh
local_voxel_size(depth) == DivByI32(R(2), Shl1(depth))

COORDINATE_RANGE == R(1)

\* the threshold factor of the plane-distance test
DIST_FACTOR == <<87, 100>>

HALF == <<1, 2>>

VoxelCoord(x, y, z) == <<x, y, z>>

\* the test on the lattice point (x, y, z) * voxel_size, without the half unit
VoxelHit_lattice(x, y, z, p1, normal, vs) ==
    LET voxel_center == Vec3(RMul(AsF32(x), vs), RMul(AsF32(y), vs), RMul(AsF32(z), vs))
        dist_to_plane == AbsUnit(DotUnit(VSub(voxel_center, p1), normal))
    IN  LeUnit(dist_to_plane, RMul(vs, DIST_FACTOR))

\* the test of the innermost loop body for the voxel (x, y, z)
VoxelHit(x, y, z, p1, normal, vs) ==
    LET voxel_center == Vec3(RMul(RAdd(AsF32(x), HALF), vs),
                             RMul(RAdd(AsF32(y), HALF), vs),
                             RMul(RAdd(AsF32(z), HALF), vs))
        dist_to_plane == AbsUnit(DotUnit(VSub(voxel_center, p1), normal))
    IN  LeUnit(dist_to_plane, RMul(vs, DIST_FACTOR))

\* the working volume left unbounded: the largest i32 in the place of max_idx
max_idx_unbounded(vs) == I32_MAX

\* max_idx = (COORDINATE_RANGE / voxel_size) as i32
max_idx_of(vs) == AsI32(RDiv(COORDINATE_RANGE, vs))

\* the voxels of the bounded range of the triangle that pass the test
triangle_hits(p1, p2, p3, vs) ==
    LET bb_min == [k \in 1..3 |-> RMin(p1[k], RMin(p2[k], p3[k]))]
        bb_max == [k \in 1..3 |-> RMax(p1[k], RMax(p2[k], p3[k]))]
        min_voxel0 == [k \in 1..3 |-> AsI32(RFloor(RDiv(bb_min[k], vs)))]
        max_voxel0 == [k \in 1..3 |-> AsI32(RCeil(RDiv(bb_max[k], vs)))]
        max_idx == max_idx_of(vs)
        min_idx == -max_idx
        min_voxel == [k \in 1..3 |-> MaxI(min_voxel0[k], min_idx)]
        max_voxel == [k \in 1..3 |-> MinI(max_voxel0[k], max_idx)]
        edge1 == VSub(p2, p1)
        edge2 == VSub(p3, p1)
        normal == normalize(Cross(edge1, edge2))
    IN  { VoxelCoord(c[1], c[2], c[3]) :
            c \in { c \in (min_voxel[1]..max_voxel[1])
                          \X (min_voxel[2]..max_voxel[2])
                          \X (min_voxel[3]..max_voxel[3]) :
                    VoxelHit(c[1], c[2], c[3], p1, normal, vs) } }

\* voxelize_triangle on a HashSet created afresh: the earlier voxels are lost
voxelize_triangle_fresh(p1, p2, p3, vs, filled) == triangle_hits(p1, p2, p3, vs)

\* voxelize_triangle(p1, p2, p3, voxel_size, &mut filled_voxels): the set after the call
voxelize_triangle(p1, p2, p3, vs, filled) ==
    filled \cup triangle_hits(p1, p2, p3, vs)

(***************************************************************************)
(* The boundary-mesh extractor of create_voxelized_mesh                    *)
(***************************************************************************)
NoVoxel == <<>>

\* neighbors with the back entry a copy of the front entry
neighbors_front_twice(v) ==
    << VoxelCoord(v[1] + 1, v[2], v[3]),
       VoxelCoord(v[1] - 1, v[2], v[3]),
       VoxelCoord(v[1], v[2] + 1, v[3]),
       VoxelCoord(v[1], v[2] - 1, v[3]),
       VoxelCoord(v[1], v[2], v[3] + 1),
       VoxelCoord(v[1], v[2], v[3] + 1) >>

\* the neighbors array of a voxel: right, left, top, bottom, front, back
neighbors(v) ==
    << VoxelCoord(v[1] + 1, v[2], v[3]),
       VoxelCoord(v[1] - 1, v[2], v[3]),
       VoxelCoord(v[1], v[2] + 1, v[3]),
       VoxelCoord(v[1], v[2] - 1, v[3]),
       VoxelCoord(v[1], v[2], v[3] + 1),
       VoxelCoord(v[1], v[2], v[3] - 1) >>

\* voxel_center of the extractor: voxel_coord as f32 * voxel_size
voxel_center_of(v, vs) ==
    Vec3(RMul(AsF32(v[1]), vs), RMul(AsF32(v[2]), vs), RMul(AsF32(v[3]), vs))

\* the corners array: the 8 corners of the cube of edge cube_size = voxel_size
corners_of(v, vs) ==
    LET c == voxel_center_of(v, vs)
        half == RDiv(vs, R(2))
        m == RNeg(half)
    IN  << VAdd(c, Vec3(m, m, m)),
           VAdd(c, Vec3(half, m, m)),
           VAdd(c, Vec3(half, m, half)),
           VAdd(c, Vec3(m, m, half)),
           VAdd(c, Vec3(m, half, m)),
           VAdd(c, Vec3(half, half, m)),
           VAdd(c, Vec3(half, half, half)),
           VAdd(c, Vec3(m, half, half)) >>

\* face_table with the normals of the top and bottom arms exchanged
face_table_swapped ==
    << [face_indices |-> <<1, 2, 6, 5>>, normal |-> Vec3(R(1), R(0), R(0))],
       [face_indices |-> <<0, 4, 7, 3>>, normal |-> Vec3(R(-1), R(0), R(0))],
       [face_indices |-> <<4, 5, 6, 7>>, normal |-> Vec3(R(0), R(-1), R(0))],
       [face_indices |-> <<0, 3, 2, 1>>, normal |-> Vec3(R(0), R(1), R(0))],
       [face_indices |-> <<3, 7, 6, 2>>, normal |-> Vec3(R(0), R(0), R(1))],
       [face_indices |-> <<0, 1, 5, 4>>, normal |-> Vec3(R(0), R(0), R(-1))] >>

\* the arms of `match i`: face_indices (0-based corner numbers) and normal
face_table ==
    << [face_indices |-> <<1, 2, 6, 5>>, normal |-> Vec3(R(1), R(0), R(0))],
       [face_indices |-> <<0, 4, 7, 3>>, normal |-> Vec3(R(-1), R(0), R(0))],
       [face_indices |-> <<4, 5, 6, 7>>, normal |-> Vec3(R(0), R(1), R(0))],
       [face_indices |-> <<0, 3, 2, 1>>, normal |-> Vec3(R(0), R(-1), R(0))],
       [face_indices |-> <<3, 7, 6, 2>>, normal |-> Vec3(R(0), R(0), R(1))],
       [face_indices |-> <<0, 1, 5, 4>>, normal |-> Vec3(R(0), R(0), R(-1))] >>

\* the four uv pairs pushed per face
face_uvs == << <<R(0), R(0)>>, <<R(1), R(0)>>, <<R(1), R(1)>>, <<R(0), R(1)>> >>

\* face_triangles with the two triangles in the order (0,1,2), (0,2,3)
face_triangles_cw(start_idx) ==
    << start_idx, start_idx + 1, start_idx + 2,
       start_idx, start_idx + 2, start_idx + 3 >>

\* the six indices pushed per face
face_triangles(start_idx) ==
    << start_idx, start_idx + 2, start_idx + 1,
       start_idx, start_idx + 3, start_idx + 2 >>

\* add_cube_face with start_idx read after the four vertices are pushed
add_cube_face_late_start(vs, ns, us, is, corners, face_indices, normal) ==
    LET start_idx == Len(vs) + 4
    IN  [ vertices |-> vs \o [k \in 1..4 |-> corners[face_indices[k] + 1]],
          normals  |-> ns \o [k \in 1..4 |-> normal],
          uvs      |-> us \o face_uvs,
          indices  |-> is \o face_triangles(start_idx) ]

\* add_cube_face: the four vectors after the call
add_cube_face(vs, ns, us, is, corners, face_indices, normal) ==
    LET start_idx == Len(vs)
    IN  [ vertices |-> vs \o [k \in 1..4 |-> corners[face_indices[k] + 1]],
          normals  |-> ns \o [k \in 1..4 |-> normal],
          uvs      |-> us \o face_uvs,
          indices  |-> is \o face_triangles(start_idx) ]

\* face_visible without the lookup: every face counts as visible
face_visible_always(v, i, filled) == TRUE

\* `!filled_voxels.contains(neighbor)` for neighbour number i (0-based)
face_visible(v, i, filled) == neighbors(v)[i + 1] \notin filled

(***************************************************************************)
(* create_voxelized_mesh, statement by statement                           *)
(***************************************************************************)
\* the vertex with index idx of the flat positions array
vertex_at(pos, idx) == Vec3(pos[idx * 3 + 1], pos[idx * 3 + 2], pos[idx * 3 + 3])

\* entry with a HashSet that already holds the voxel of the origin
CvmBegin_seeded ==
    /\ pc = "call"
    /\ pc' = "raster"
    /\ voxel_size' = local_voxel_size(octree_depth)
    /\ filled_voxels' = {VoxelCoord(0, 0, 0)}
    /\ tri' = 0
    /\ UNCHANGED <<load_vars, app_vars,
                   octree_depth, positions, indices, pending, cur, face,
                   vertices, normals, uvs, mesh_indices>>

\* entry: voxel_size, positions, indices, the empty HashSet
CvmBegin ==
    /\ pc = "call"
    /\ pc' = "raster"
    /\ voxel_size' = local_voxel_size(octree_depth)
    /\ filled_voxels' = {}
    /\ tri' = 0
    /\ UNCHANGED <<load_vars, app_vars,
                   octree_depth, positions, indices, pending, cur, face,
                   vertices, normals, uvs, mesh_indices>>

\* one iteration of `for i in 0..indices.len() / 3`
RasterStep ==
    /\ pc = "raster"
    /\ tri < Len(indices) \div 3
    /\ LET idx1 == indices[tri * 3 + 1]
           idx2 == indices[tri * 3 + 2]
           idx3 == indices[tri * 3 + 3]
           p1 == vertex_at(positions, idx1)
           p2 == vertex_at(positions, idx2)
           p3 == vertex_at(positions, idx3)
       IN  filled_voxels' = voxelize_triangle(p1, p2, p3, voxel_size, filled_voxels)
    /\ tri' = tri + 1
    /\ UNCHANGED <<load_vars, app_vars,
                   pc, octree_depth, voxel_size, positions, indices, pending, cur,
                   face, vertices, normals, uvs, mesh_indices>>

\* the triangle loop ends; the four vectors are created empty
RasterDone ==
    /\ pc = "raster"
    /\ tri = Len(indices) \div 3
    /\ pc' = "extract"
    /\ pending' = filled_voxels
    /\ cur' = NoVoxel
    /\ face' = 0
    /\ vertices' = <<>>
    /\ normals' = <<>>
    /\ uvs' = <<>>
    /\ mesh_indices' = <<>>
    /\ UNCHANGED <<load_vars, app_vars,
                   octree_depth, voxel_size, positions, indices, tri, filled_voxels>>

\* `for voxel_coord in &filled_voxels`: the HashSet yields its elements in
\* an order the program does not control
NextVoxel ==
    /\ pc = "extract"
    /\ cur = NoVoxel
    /\ \E v \in pending :
        /\ cur' = v
        /\ pending' = pending \ {v}
    /\ face' = 0
    /\ UNCHANGED <<load_vars, app_vars,
                   pc, octree_depth, voxel_size, positions, indices, tri,
                   filled_voxels, vertices, normals, uvs, mesh_indices>>

\* the neighbour loop advances; after neighbour 5 the voxel is finished
FaceAdvance ==
    /\ face' = (IF face = 5 THEN 0 ELSE face + 1)
    /\ cur' = (IF face = 5 THEN NoVoxel ELSE cur)

\* neighbour i is absent: add_cube_face is called with arm i of the match
FaceEmit ==
    /\ pc = "extract"
    /\ cur # NoVoxel
    /\ face_visible(cur, face, filled_voxels)
    /\ \E r \in { add_cube_face(vertices, normals, uvs, mesh_indices,
                                  corners_of(cur, voxel_size),
                                  face_table[face + 1].face_indices,
                                  face_table[face + 1].normal) } :
          /\ vertices' = r.vertices
          /\ normals' = r.normals
          /\ uvs' = r.uvs
          /\ mesh_indices' = r.indices
    /\ FaceAdvance
    /\ UNCHANGED <<load_vars, app_vars,
                   pc, octree_depth, voxel_size, positions, indices, tri,
                   filled_voxels, pending>>

\* neighbour i is present: nothing is added
FaceSkip ==
    /\ pc = "extract"
    /\ cur # NoVoxel
    /\ ~face_visible(cur, face, filled_voxels)
    /\ FaceAdvance
    /\ UNCHANGED <<load_vars, app_vars,
                   pc, octree_depth, voxel_size, positions, indices, tri,
                   filled_voxels, pending, vertices, normals, uvs, mesh_indices>>

\* the body of the neighbour loop for neighbour i, on the four vectors m
neighbour_step(m, v, i, filled, vs) ==
    IF face_visible(v, i, filled)
    THEN add_cube_face(m.vertices, m.normals, m.uvs, m.indices,
                       corners_of(v, vs),
                       face_table[i + 1].face_indices,
                       face_table[i + 1].normal)
    ELSE m

RECURSIVE voxel_faces_from(_, _, _, _, _)
\* the neighbour loop from neighbour i to neighbour 5 (n: the vectors after
\* neighbour i, bound once)
voxel_faces_from(m, v, i, filled, vs) ==
    IF i = 6 THEN m
    ELSE CHOOSE r \in { voxel_faces_from(n, v, i + 1, filled, vs) :
                          n \in {neighbour_step(m, v, i, filled, vs)} } : TRUE

\* one whole iteration of the voxel loop, taken as a single step
VoxelStep ==
    /\ pc = "extract"
    /\ cur = NoVoxel
    /\ \E v \in pending :
        /\ pending' = pending \ {v}
        /\ \E r \in { voxel_faces_from([vertices |-> vertices, normals |-> normals,
                                         uvs |-> uvs, indices |-> mesh_indices],
                                        v, 0, filled_voxels, voxel_size) } :
              /\ vertices' = r.vertices
              /\ normals' = r.normals
              /\ uvs' = r.uvs
              /\ mesh_indices' = r.indices
    /\ UNCHANGED <<load_vars, app_vars,
                   pc, octree_depth, voxel_size, positions, indices, tri,
                   filled_voxels, cur, face>>

\* the voxel loop ends; the vectors become the attributes of the returned Mesh
CvmReturn ==
    /\ pc = "extract"
    /\ cur = NoVoxel
    /\ pending = {}
    /\ pc' = "done"
    /\ UNCHANGED <<load_vars, app_vars,
                   octree_depth, voxel_size, positions, indices, tri, filled_voxels,
                   pending, cur, face, vertices, normals, uvs, mesh_indices>>

(***************************************************************************)
(* SpecFaces: the extractor run on every VoxelSet of a bounded family      *)
(***************************************************************************)
(* The parts of the state a specification does not run                     *)
(***************************************************************************)
NoPath == "None"

NoLabel == NaN

\* no system has run yet
NoRun == [system |-> "None", clicks |-> {}, result |-> "None"]

\* the range of the Octree Depth slider
SLIDER_MIN == 1

SLIDER_MAX == 10

\* VoxelizationSettings::default
DEFAULT_DEPTH == 6

\* load_model_system has not loaded a file
LoadIdle ==
    /\ loaded_obj = <<>>
    /\ obj_indices = <<>>
    /\ models = <<>>
    /\ min_xyz = <<NaN, NaN, NaN>>
    /\ max_xyz = <<NaN, NaN, NaN>>
    /\ center_xyz = <<NaN, NaN, NaN>>
    /\ max_dimension = NaN
    /\ scale_factor = NaN
    /\ sub = 1
    /\ vtx = 0

\* the resources as init_resource creates them, an empty world
AppIdle ==
    /\ path = NoPath
    /\ loaded = FALSE
    /\ entities = <<>>
    /\ commands = <<>>
    /\ label = NoLabel
    /\ last_run = NoRun

\* create_voxelized_mesh is not running
CvmIdle ==
    /\ voxel_size = NaN
    /\ positions = <<>>
    /\ indices = <<>>
    /\ tri = 0
    /\ filled_voxels = {}
    /\ pending = {}
    /\ cur = NoVoxel
    /\ face = 0
    /\ vertices = <<>>
    /\ normals = <<>>
    /\ uvs = <<>>
    /\ mesh_indices = <<>>

(***************************************************************************)
MaxFaceDepth == 1

MaxVoxels == 3

Origin == VoxelCoord(0, 0, 0)

\* a voxel with its six neighbours
Plus == {Origin} \cup {neighbors(Origin)[k] : k \in 1..6}

VoxelSets == {S \in SUBSET Plus : Cardinality(S) <= MaxVoxels} \cup {Plus}

InitFaces ==
    /\ LoadIdle
    /\ AppIdle
    /\ pc = "extract"
    /\ octree_depth \in 1..MaxFaceDepth
    /\ voxel_size = local_voxel_size(octree_depth)
    /\ positions = <<>>
    /\ indices = <<>>
    /\ tri = 0
    /\ filled_voxels \in VoxelSets
    /\ pending = filled_voxels
    /\ cur = NoVoxel
    /\ face = 0
    /\ vertices = <<>>
    /\ normals = <<>>
    /\ uvs = <<>>
    /\ mesh_indices = <<>>

NextFaces == NextVoxel \/ FaceEmit \/ FaceSkip \/ CvmReturn

SpecFaces == InitFaces /\ [][NextFaces]_vars

(***************************************************************************)
(* Reading the mesh: quad k (1-based) is the k-th group of four vertices   *)
(* and of six indices.  These definitions use neither face_table nor       *)
(* corners_of nor neighbors.                                               *)
(***************************************************************************)
NumQuads == Len(vertices) \div 4

QuadVertex(k, j) == vertices[4 * (k - 1) + j]

QuadNormal(k, j) == normals[4 * (k - 1) + j]

\* the vertex that the i-th index (1..6) of quad k refers to
QuadIndexed(k, i) == vertices[mesh_indices[6 * (k - 1) + i] + 1]

\* the six axis directions, as integer triples
SixDirs == { <<1, 0, 0>>, <<-1, 0, 0>>, <<0, 1, 0>>, <<0, -1, 0>>,
             <<0, 0, 1>>, <<0, 0, -1>> }

DirVec(d) == Vec3(R(d[1]), R(d[2]), R(d[3]))

Shifted(v, d) == VoxelCoord(v[1] + d[1], v[2] + d[2], v[3] + d[3])

NoFace == <<>>

\* the direction the first normal of quad k names, or the zero triple
QuadDir(k) ==
    IF \E d \in SixDirs : DirVec(d) = QuadNormal(k, 1)
    THEN CHOOSE d \in SixDirs : DirVec(d) = QuadNormal(k, 1)
    ELSE <<0, 0, 0>>

\* the four vertices of quad k in units of voxel_size / 2
QuadUnits(k) ==
    [j \in 1..4 |-> [a \in 1..3 |-> RDiv(RMul(R(2), QuadVertex(k, j)[a]), voxel_size)]]

\* u: four points in units of voxel_size / 2.  The cube of voxel v has its
\* centre at 2v and its corners at 2v + (+-1, +-1, +-1); the corners of its
\* side in direction d are those with 2v[a] + d[a] on the axis a of d.  The
\* sum of the four corners of that side is 8v + 4d, which gives the only
\* candidate v.  The result is <<v, d>> when u are four distinct corners of
\* the side d of the cube of v, and NoFace when no v fits.
SideOf(u, d) ==
    IF \/ d \notin SixDirs
       \/ \E j \in 1..4 : \E a \in 1..3 : u[j][a][2] # 1
       \/ \E a \in 1..3 :
            (u[1][a][1] + u[2][a][1] + u[3][a][1] + u[4][a][1] - 4 * d[a]) % 8 # 0
    THEN NoFace
    ELSE LET v == [a \in 1..3 |->
                     (u[1][a][1] + u[2][a][1] + u[3][a][1] + u[4][a][1] - 4 * d[a]) \div 8]
         IN  IF /\ \A j \in 1..4 : \A a \in 1..3 :
                      IF d[a] # 0 THEN u[j][a][1] = 2 * v[a] + d[a]
                      ELSE u[j][a][1] = 2 * v[a] + 1 \/ u[j][a][1] = 2 * v[a] - 1
                /\ Cardinality({u[j] : j \in 1..4}) = 4
             THEN <<VoxelCoord(v[1], v[2], v[3]), d>>
             ELSE NoFace

\* <<v, d>> when quad k is the face of voxel v in direction d (four distinct
\* corners of that side of the cube of edge voxel_size centred at
\* v * voxel_size, each with the normal d), NoFace when it is no face
QuadKey(k) ==
    IF \A j \in 1..4 : QuadNormal(k, j) = QuadNormal(k, 1)
    THEN CHOOSE r \in {SideOf(u, QuadDir(k)) : u \in {QuadUnits(k)}} : TRUE
    ELSE NoFace

Exposed == {f \in filled_voxels \X SixDirs : Shifted(f[1], f[2]) \notin filled_voxels}

(***************************************************************************)
(* C1: in the mesh create_voxelized_mesh returns, every occupied voxel v   *)
(* and axis direction d has exactly one quad (4 vertices, 6 indices) when  *)
(* v+d is not occupied and none when it is; nothing else is in the mesh.   *)
(* So a voxel with six occupied neighbours has no face, and a VoxelSet of  *)
(* one voxel gives 6 quads, 24 vertices, 36 indices (12 triangles).        *)
(***************************************************************************)
C1_BoundaryFacesOnly ==
    pc = "done" =>
        /\ \A keys \in {[k \in 1..NumQuads |-> QuadKey(k)]} :
              \A v \in filled_voxels : \A d \in SixDirs :
                  Cardinality({k \in 1..NumQuads : keys[k] = <<v, d>>}) =
                     (IF Shifted(v, d) \in filled_voxels THEN 0 ELSE 1)
        /\ Len(vertices) = 4 * Cardinality(Exposed)
        /\ Len(mesh_indices) = 6 * Cardinality(Exposed)
        /\ Cardinality(filled_voxels) = 1 =>
              /\ NumQuads = 6
              /\ Len(vertices) = 24
              /\ Len(mesh_indices) = 3 * 12

\* a finished mesh of a VoxelSet that holds a voxel with six occupied
\* neighbours, next to voxels with exposed faces
C1_Witness ==
    /\ pc = "done"
    /\ \E v \in filled_voxels : \A d \in SixDirs : Shifted(v, d) \in filled_voxels
    /\ NumQuads > 0

(***************************************************************************)
(* C2: in every state of the extractor, so after every add_cube_face and   *)
(* in the returned mesh, vertices, normals and uvs have the same length,   *)
(* the index count is a multiple of 3 and every index is below the number  *)
(* of vertices.                                                            *)
(***************************************************************************)
C2_MeshWellFormed ==
    /\ Len(vertices) = Len(normals)
    /\ Len(normals) = Len(uvs)
    /\ Len(mesh_indices) % 3 = 0
    /\ \A i \in 1..Len(mesh_indices) :
          mesh_indices[i] >= 0 /\ mesh_indices[i] < Len(vertices)

\* add_cube_face has run twice for the voxel being processed, one more
\* neighbour is still to be tested
C2_Witness ==
    /\ pc = "extract"
    /\ cur # NoVoxel
    /\ face > 0
    /\ Len(vertices) >= 8
    /\ Len(mesh_indices) >= 12

(***************************************************************************)
(* C5: in the returned mesh the four vertices of every quad carry one      *)
(* normal, a unit axis vector d; some occupied voxel v has no neighbour in *)
(* direction d, and the four vertices are corners of v's cube (centre      *)
(* v * voxel_size) on the side at voxel_size / 2 along d.                  *)
(***************************************************************************)
C5_NormalsAndSides ==
    pc = "done" => \A k \in 1..NumQuads :
        /\ \A j \in 1..4 : QuadNormal(k, j) = QuadNormal(k, 1)
        /\ QuadDir(k) \in SixDirs
        /\ \A key \in {QuadKey(k)} :
              /\ key # NoFace
              /\ key[2] = QuadDir(k)
              /\ key[1] \in filled_voxels
              /\ Shifted(key[1], key[2]) \notin filled_voxels

\* a finished mesh that holds a quad for each of the six directions
C5_Witness ==
    /\ pc = "done"
    /\ \A d \in SixDirs : \E k \in 1..NumQuads : QuadNormal(k, 1) = DirVec(d)
    /\ Cardinality(filled_voxels) >= 2

(***************************************************************************)
(* C6: in the returned mesh both triangles of every quad, in index order (a, b, c), have   *)
(* (b - a) x (c - a) along the quad's outward normal: counter-clockwise    *)
(* seen from outside.  The index pattern is (0,2,1), (0,3,2) on the quad.  *)
(***************************************************************************)
TriangleCross(k, t) ==
    LET a == QuadIndexed(k, 3 * t + 1)
        b == QuadIndexed(k, 3 * t + 2)
        c == QuadIndexed(k, 3 * t + 3)
    IN  Cross(VSub(b, a), VSub(c, a))

\* w = lambda * n for some lambda > 0, n a unit axis vector
AlongNormal(w, n) ==
    /\ RLt(R(0), Dot(w, n))
    /\ \A a \in 1..3 : n[a] = R(0) => w[a] = R(0)

C6_CounterClockwise ==
    pc = "done" => \A k \in 1..NumQuads :
        /\ \A t \in 0..1 : AlongNormal(TriangleCross(k, t), QuadNormal(k, 1))
        /\ LET s0 == 4 * (k - 1)
           IN  [i \in 1..6 |-> mesh_indices[6 * (k - 1) + i]]
                  = <<s0, s0 + 2, s0 + 1, s0, s0 + 3, s0 + 2>>

\* the finished mesh of one isolated voxel: all six face-table entries used
C6_Witness ==
    /\ pc = "done"
    /\ Cardinality(filled_voxels) = 1
    /\ NumQuads = 6
    /\ {QuadNormal(k, 1) : k \in 1..NumQuads} = {DirVec(d) : d \in SixDirs}

(***************************************************************************)
(* SpecRaster: the triangle loop of create_voxelized_mesh on every list of *)
(* at most MaxTris triangles of a pool, at every depth 1..MaxDepth         *)
(***************************************************************************)
MaxDepth == 2

MaxTris == 2

\* vertex k (0-based) of the input mesh; flattened into positions below
VertexPool ==
    << Vec3(R(0), R(0), R(0)),              \* 0
       Vec3(R(1), R(0), R(0)),              \* 1
       Vec3(R(0), R(1), R(0)),              \* 2
       Vec3(R(0), R(0), R(1)),              \* 3
       Vec3(<<1, 2>>, <<1, 2>>, R(0)),      \* 4: on the line 0-5
       Vec3(R(1), R(1), R(0)),              \* 5
       Vec3(R(3), R(0), R(0)),              \* 6: outside the working volume
       Vec3(R(3), R(1), R(0)),              \* 7: outside
       Vec3(R(3), R(0), R(1)),              \* 8: outside
       Vec3(<<-19, 20>>, <<-1, 4>>, <<3, 10>>) >>  \* 9

VertexTable == [i \in 1..(3 * Len(VertexPool)) |-> VertexPool[((i - 1) \div 3) + 1][((i - 1) % 3) + 1]]

\* index triples: flat, slanted, through negative coordinates, collinear,
\* coincident, two coincident, outside, partly outside
TrianglePool ==
    { <<0, 1, 2>>, <<1, 2, 3>>, <<9, 3, 1>>, <<0, 4, 5>>, <<3, 3, 3>>,
      <<2, 2, 1>>, <<6, 7, 8>>, <<0, 6, 2>> }

RECURSIVE Flatten(_)
Flatten(ts) == IF ts = <<>> THEN <<>> ELSE Head(ts) \o Flatten(Tail(ts))

IndexLists ==
    UNION { {Flatten(ts) : ts \in [1..n -> TrianglePool]} : n \in 0..MaxTris }

InitRaster ==
    /\ LoadIdle
    /\ AppIdle
    /\ pc = "call"
    /\ octree_depth \in 1..MaxDepth
    /\ voxel_size = NaN
    /\ positions = VertexTable
    /\ indices \in IndexLists
    /\ tri = 0
    /\ filled_voxels = {}
    /\ pending = {}
    /\ cur = NoVoxel
    /\ face = 0
    /\ vertices = <<>>
    /\ normals = <<>>
    /\ uvs = <<>>
    /\ mesh_indices = <<>>

NextRaster == CvmBegin \/ RasterStep \/ RasterDone

SpecRaster == InitRaster /\ [][NextRaster]_vars

\* triangle number i (0-based) of the input, as its three points
TriangleAt(i) ==
    << vertex_at(positions, indices[i * 3 + 1]),
       vertex_at(positions, indices[i * 3 + 2]),
       vertex_at(positions, indices[i * 3 + 3]) >>

\* what triangle t inserts into an empty set
AloneSet(t) == voxelize_triangle(t[1], t[2], t[3], voxel_size, {})

\* zero area: the edge vectors p2 - p1 and p3 - p1 are linearly dependent
ZeroArea(t) ==
    LET e == VSub(t[2], t[1])
        f == VSub(t[3], t[1])
    IN  \A a, b \in 1..3 : RMul(e[a], f[b]) = RMul(e[b], f[a])

(***************************************************************************)
(* C3: while and after the triangle loop the VoxelSet is the union of the  *)
(* sets the processed triangles insert on their own into an empty set.     *)
(* The union does not depend on the order of the triangles nor on how      *)
(* often one occurs, so neither does the VoxelSet.                         *)
(***************************************************************************)
C3_UnionOfTriangles ==
    pc \in {"raster", "extract"} =>
        filled_voxels = UNION {AloneSet(TriangleAt(i)) : i \in 0..(tri - 1)}

\* two triangles processed, each inserting voxels the other does not
C3_Witness ==
    /\ pc = "extract"
    /\ tri = 2
    /\ AloneSet(TriangleAt(0)) \ AloneSet(TriangleAt(1)) # {}
    /\ AloneSet(TriangleAt(1)) \ AloneSet(TriangleAt(0)) # {}

MaxCell == 1

\* the 8 vertices of the cube [c * s, (c + 1) * s]^3, numbered like the
\* corners of the extractor
CubeVertices(c, s) ==
    LET lo == [a \in 1..3 |-> RMul(R(c[a]), s)]
        hi == [a \in 1..3 |-> RMul(R(c[a] + 1), s)]
    IN  << Vec3(lo[1], lo[2], lo[3]), Vec3(hi[1], lo[2], lo[3]),
           Vec3(hi[1], lo[2], hi[3]), Vec3(lo[1], lo[2], hi[3]),
           Vec3(lo[1], hi[2], lo[3]), Vec3(hi[1], hi[2], lo[3]),
           Vec3(hi[1], hi[2], hi[3]), Vec3(lo[1], hi[2], hi[3]) >>

CubePositions(c, s) ==
    [i \in 1..24 |-> CubeVertices(c, s)[((i - 1) \div 3) + 1][((i - 1) % 3) + 1]]

\* two triangles per side of the cube
CubeIndices ==
    << 1, 2, 6,  1, 6, 5,   0, 4, 7,  0, 7, 3,   4, 5, 6,  4, 6, 7,
       0, 3, 2,  0, 2, 1,   3, 7, 6,  3, 6, 2,   0, 1, 5,  0, 5, 4 >>

\* the cells from the centre of the working volume to its edge at depth 1:
\* the cube lies in the volume or touches it from outside
CubeCells ==
    { c \in (0..MaxCell) \X (0..MaxCell) \X (0..MaxCell) :
        \A a \in 1..3 : c[a] <= AsI32(RDiv(COORDINATE_RANGE, voxel_size_of(1))) }

InitCube ==
    /\ LoadIdle
    /\ AppIdle
    /\ pc = "call"
    /\ octree_depth = 1
    /\ voxel_size = NaN
    /\ \E c \in CubeCells : positions = CubePositions(c, voxel_size_of(octree_depth))
    /\ indices = CubeIndices
    /\ tri = 0
    /\ filled_voxels = {}
    /\ pending = {}
    /\ cur = NoVoxel
    /\ face = 0
    /\ vertices = <<>>
    /\ normals = <<>>
    /\ uvs = <<>>
    /\ mesh_indices = <<>>

NextCube == CvmBegin \/ RasterStep \/ RasterDone \/ VoxelStep \/ CvmReturn

SpecCube == InitCube /\ [][NextCube]_vars

\* the cell the cube fills: its first vertex is c * voxel_size
CubeCell == [a \in 1..3 |-> AsI32(RDiv(positions[a], voxel_size_of(octree_depth)))]

\* the working-volume bound M of the rasterizer, in voxel coordinates
MaxIdx == AsI32(RDiv(COORDINATE_RANGE, voxel_size_of(octree_depth)))

\* the 2 x 2 x 2 block c .. c+1, cut to the working volume
CubeBlock ==
    { v \in (CubeCell[1]..(CubeCell[1] + 1)) \X (CubeCell[2]..(CubeCell[2] + 1))
            \X (CubeCell[3]..(CubeCell[3] + 1)) :
        \A a \in 1..3 : v[a] >= -MaxIdx /\ v[a] <= MaxIdx }

(***************************************************************************)
(* C4 as stated: the one-cell cube voxelizes to exactly one voxel and the  *)
(* returned mesh has 6 faces, 12 triangles, 24 vertices.                   *)
(***************************************************************************)
C4_OneVoxelSixFaces ==
    /\ pc \in {"extract", "done"} => Cardinality(filled_voxels) = 1
    /\ pc = "done" =>
          /\ NumQuads = 6
          /\ Len(mesh_indices) = 3 * 12
          /\ Len(vertices) = 24

(***************************************************************************)
(* C4 amended: the cube that fills the cell c voxelizes to the block       *)
(* {c, c+1}^3 cut to the working volume, 8 voxels when nothing is cut;     *)
(* the returned mesh has one quad per exposed face of that block and no    *)
(* other quad, 24 quads (48 triangles) for the whole block.                *)
(***************************************************************************)
C4_CubeGivesBlock ==
    /\ pc \in {"extract", "done"} =>
          /\ filled_voxels = CubeBlock
          /\ (\A a \in 1..3 : CubeCell[a] + 1 <= MaxIdx) =>
                Cardinality(filled_voxels) = 8
    /\ pc = "done" =>
          /\ NumQuads = Cardinality(Exposed)
          /\ Len(mesh_indices) = 6 * NumQuads
          /\ {QuadKey(k) : k \in 1..NumQuads} = Exposed
          /\ Cardinality(filled_voxels) = 8 => NumQuads = 24

\* the returned mesh of the cube on the cell (0,0,0): 8 voxels, 24 quads
C4_Witness ==
    /\ pc = "done"
    /\ CubeCell = <<0, 0, 0>>
    /\ Cardinality(filled_voxels) = 8
    /\ NumQuads = 24

(***************************************************************************)
(* The normalizer of load_model_system                                     *)
(***************************************************************************)
\* f32::MAX.  The floats of the normalizer range over [-2^10, 2^10] in
\* place of [-2^128, 2^128]: the exponent range is shortened so that every
\* product of the arithmetic stays a machine integer; the rule at the ends
\* of the range is the one of IEEE 754.
F32_MAX == R(1024)

\* f32::MIN
F32_MIN == RNeg(F32_MAX)

\* the f32 result of an operation whose exact result is a: past the largest
\* finite value it is an infinity
F32(a) ==
    IF a[2] = 0 THEN a
    ELSE IF RLt(F32_MAX, a) THEN PosInf
    ELSE IF RLt(a, F32_MIN) THEN NegInf
    ELSE a

FAdd(a, b) == F32(RAdd(a, b))

FSub(a, b) == F32(RSub(a, b))

FMul(a, b) == F32(RMul(a, b))

FDiv(a, b) == F32(RDiv(a, b))

\* COORDINATE_RANGE * 2.0 * 0.95
world_size == FMul(FMul(COORDINATE_RANGE, R(2)), <<19, 20>>)

\* the number of vertices of a flat positions array
num_vertices(pos) == Len(pos) \div 3

\* tobj::load_obj succeeded: the bounding box starts at the sentinels
NormBegin ==
    /\ pc = "loaded_obj"
    /\ pc' = "bbox"
    /\ models' = loaded_obj
    /\ min_xyz' = <<F32_MAX, F32_MAX, F32_MAX>>
    /\ max_xyz' = <<F32_MIN, F32_MIN, F32_MIN>>
    /\ sub' = 1
    /\ vtx' = 0
    /\ UNCHANGED <<cvm_vars, app_vars, loaded_obj, obj_indices, center_xyz, max_dimension,
                   scale_factor>>

\* one vertex of the bounding-box loop
BBoxStep ==
    /\ pc = "bbox"
    /\ sub <= Len(models)
    /\ vtx < num_vertices(models[sub])
    /\ min_xyz' = [a \in 1..3 |-> RMin(min_xyz[a], models[sub][vtx * 3 + a])]
    /\ max_xyz' = [a \in 1..3 |-> RMax(max_xyz[a], models[sub][vtx * 3 + a])]
    /\ vtx' = vtx + 1
    /\ UNCHANGED <<pc, cvm_vars, app_vars, loaded_obj, obj_indices, models, center_xyz,
                   max_dimension, scale_factor, sub>>

\* `for model in &models`: the next sub-mesh
BBoxNextModel ==
    /\ pc = "bbox"
    /\ sub <= Len(models)
    /\ vtx = num_vertices(models[sub])
    /\ sub' = sub + 1
    /\ vtx' = 0
    /\ UNCHANGED <<pc, cvm_vars, app_vars, loaded_obj, obj_indices, models, min_xyz, max_xyz,
                   center_xyz, max_dimension, scale_factor>>

\* center, sizes, max_dimension and scale_factor
BBoxDone ==
    /\ pc = "bbox"
    /\ sub > Len(models)
    /\ pc' = "transform"
    /\ center_xyz' = [a \in 1..3 |-> FDiv(FAdd(min_xyz[a], max_xyz[a]), R(2))]
    /\ \E size \in {[a \in 1..3 |-> FSub(max_xyz[a], min_xyz[a])]} :
          max_dimension' = RMax(size[1], RMax(size[2], size[3]))
    /\ scale_factor' = IF RLt(R(0), max_dimension')
                          THEN FDiv(world_size, max_dimension')
                          ELSE R(1)
    /\ sub' = 1
    /\ vtx' = 0
    /\ UNCHANGED <<cvm_vars, app_vars, loaded_obj, obj_indices, models, min_xyz, max_xyz>>

\* one vertex of the transform loop: (position - center) * scale_factor
TransformStep ==
    /\ pc = "transform"
    /\ sub <= Len(models)
    /\ vtx < num_vertices(models[sub])
    /\ models' = [models EXCEPT ![sub] =
                    [k \in 1..Len(@) |->
                        IF (k - 1) \div 3 = vtx
                        THEN FMul(FSub(@[k], center_xyz[((k - 1) % 3) + 1]), scale_factor)
                        ELSE @[k]]]
    /\ vtx' = vtx + 1
    /\ UNCHANGED <<pc, cvm_vars, app_vars, loaded_obj, obj_indices, min_xyz, max_xyz, center_xyz,
                   max_dimension, scale_factor, sub>>

\* `for model in &mut models`: the next sub-mesh
TransformNextModel ==
    /\ pc = "transform"
    /\ sub <= Len(models)
    /\ vtx = num_vertices(models[sub])
    /\ sub' = sub + 1
    /\ vtx' = 0
    /\ UNCHANGED <<pc, cvm_vars, app_vars, loaded_obj, obj_indices, models, min_xyz, max_xyz,
                   center_xyz, max_dimension, scale_factor>>

\* every sub-mesh is transformed
TransformDone ==
    /\ pc = "transform"
    /\ sub > Len(models)
    /\ pc' = "normalized"
    /\ UNCHANGED <<cvm_vars, load_vars, app_vars>>

(***************************************************************************)
(* SpecNorm: the normalizer on the models of a bounded family              *)
(***************************************************************************)
MaxSubMeshes == 2

MaxSubVertices == 2

\* vertices of a file: near the origin, and far out in the float range
NormVertexPool ==
    { <<R(0), R(0), R(0)>>, <<R(1), R(2), R(3)>>, <<R(-2), R(1), R(0)>>,
      <<R(768), R(0), R(0)>>, <<R(-768), R(1), R(0)>>, <<R(640), R(2), R(2)>> }

\* the flat positions arrays of up to MaxSubVertices vertices
SubMeshes ==
    UNION { { [k \in 1..(3 * n) |-> vs[((k - 1) \div 3) + 1][((k - 1) % 3) + 1]] :
                vs \in [1..n -> NormVertexPool] } : n \in 0..MaxSubVertices }

\* what tobj::load_obj returns: up to MaxSubMeshes sub-meshes
LoadedObjs == UNION { [1..n -> SubMeshes] : n \in 0..MaxSubMeshes }

InitNorm ==
    /\ pc = "loaded_obj"
    /\ octree_depth = DEFAULT_DEPTH
    /\ CvmIdle
    /\ AppIdle
    /\ loaded_obj \in LoadedObjs
    /\ obj_indices = [s \in 1..Len(loaded_obj) |-> <<>>]
    /\ models = loaded_obj
    /\ min_xyz = <<NaN, NaN, NaN>>
    /\ max_xyz = <<NaN, NaN, NaN>>
    /\ center_xyz = <<NaN, NaN, NaN>>
    /\ max_dimension = NaN
    /\ scale_factor = NaN
    /\ sub = 1
    /\ vtx = 0

NextNorm ==
    \/ NormBegin \/ BBoxStep \/ BBoxNextModel \/ BBoxDone
    \/ TransformStep \/ TransformNextModel \/ TransformDone

SpecNorm == InitNorm /\ [][NextNorm]_vars

\* the vertices of the loaded model: <<sub-mesh, vertex>>
VertexSlots ==
    { <<s, i>> : s \in 1..Len(loaded_obj), i \in 0..(MaxSubVertices + 1) } \cap
    { sl \in (1..Len(loaded_obj)) \X (0..(MaxSubVertices + 1)) :
        sl[2] < num_vertices(loaded_obj[sl[1]]) }

\* the values of coordinate a over all sub-meshes of ms
CoordSet(ms, a) == { ms[sl[1]][sl[2] * 3 + a] : sl \in VertexSlots }

SetMin(S) == CHOOSE x \in S : \A y \in S : RLe(x, y)

SetMax(S) == CHOOSE x \in S : \A y \in S : RLe(y, x)

\* center and max_dimension of the bounding box over all sub-meshes, in
\* exact arithmetic
ExactCenter(a) ==
    RDiv(RAdd(SetMin(CoordSet(loaded_obj, a)), SetMax(CoordSet(loaded_obj, a))), R(2))

ExactMaxDimension ==
    SetMax({ RSub(SetMax(CoordSet(loaded_obj, a)), SetMin(CoordSet(loaded_obj, a))) :
               a \in 1..3 })

\* the normalized model is the exact image of the loaded one, centred on
\* the origin, 1.9 wide on its largest axis, inside [-0.95, 0.95]
FitsWorld ==
    /\ \A sl \in VertexSlots : \A a \in 1..3 :
          models[sl[1]][sl[2] * 3 + a] =
             RMul(RSub(loaded_obj[sl[1]][sl[2] * 3 + a], ExactCenter(a)),
                  RDiv(<<19, 10>>, ExactMaxDimension))
    /\ \A a \in 1..3 : \A v \in CoordSet(models, a) :
          RLe(<<-19, 20>>, v) /\ RLe(v, <<19, 20>>)
    /\ \A a \in 1..3 : SetMin(CoordSet(models, a)) = RNeg(SetMax(CoordSet(models, a)))
    /\ SetMax({ RSub(SetMax(CoordSet(models, a)), SetMin(CoordSet(models, a))) :
                  a \in 1..3 }) = <<19, 10>>

\* all vertices of the loaded model are one point
Coincident == \A a \in 1..3 : Cardinality(CoordSet(loaded_obj, a)) = 1

\* no sum or difference of two coordinates of the file leaves the float range
HalfRange ==
    \A a \in 1..3 : \A v \in CoordSet(loaded_obj, a) :
        RLe(RAbs(v), RDiv(F32_MAX, R(2)))

(***************************************************************************)
(* C8: a normalized model with at least one vertex and max_dimension > 0   *)
(* has every vertex replaced by (original - center) * (1.9 /               *)
(* max_dimension), center and max_dimension taken over all sub-meshes; its *)
(* bounding box is centred on the origin, its largest dimension is 1.9 and *)
(* every coordinate lies in [-0.95, 0.95].                                 *)
(***************************************************************************)
C8_NormalizedFitsWorld ==
    (pc = "normalized" /\ VertexSlots # {} /\ RLt(R(0), ExactMaxDimension))
        => FitsWorld

\* the same for the models whose coordinates stay within half the float range
Normalizer_FitsWithinHalfRange ==
    (pc = "normalized" /\ VertexSlots # {} /\ RLt(R(0), ExactMaxDimension)
        /\ HalfRange) => FitsWorld

(***************************************************************************)
(* C9: when all vertices of the model coincide, the normalizer uses        *)
(* scale = 1.0 and every normalized position is finite.                    *)
(***************************************************************************)
C9_CoincidentStaysFinite ==
    (pc = "normalized" /\ VertexSlots # {} /\ Coincident) =>
        /\ scale_factor = R(1)
        /\ \A a \in 1..3 : \A v \in CoordSet(models, a) : IsFinite(v)

\* the same for the models whose coordinates stay within half the float range
Normalizer_CoincidentWithinHalfRange ==
    (pc = "normalized" /\ VertexSlots # {} /\ Coincident /\ HalfRange) =>
        /\ scale_factor = R(1)
        /\ \A a \in 1..3 : \A v \in CoordSet(models, a) : v = R(0)

(***************************************************************************)
(* The app: ui_system and load_model_system, run once per update in an     *)
(* order the schedule does not fix.  A ModelMesh entity is represented by  *)
(* what its mesh was built from: the path, the octree_depth passed to      *)
(* create_voxelized_mesh and the voxel size computed there.                *)
(***************************************************************************)
MaxModels == 2

Paths == {"a.obj", "b.obj"}

\* the commands of one load_model_system run.  A despawn names its entity by
\* the place it has in the world; a spawn carries what the entity was built from
NoBundle == [path |-> NoPath]

despawn_command(k) == [op |-> "despawn", entity |-> k, bundle |-> NoBundle]

spawn_command(b) == [op |-> "spawn", entity |-> 0, bundle |-> b]

\* the loop left out: the earlier entities are not queued for despawn
despawn_none(world) == <<>>

\* `for entity in model_query.iter() { commands.entity(entity).despawn_recursive() }`
despawn_all(world) == [k \in 1..Len(world) |-> despawn_command(k)]

RECURSIVE Survivors(_, _, _)
\* the entities from place k on that no command despawns
Survivors(world, gone, k) ==
    IF k > Len(world) THEN <<>>
    ELSE (IF k \in gone THEN <<>> ELSE <<world[k]>>) \o Survivors(world, gone, k + 1)

RECURSIVE Spawned(_)
Spawned(cmds) ==
    IF cmds = <<>> THEN <<>>
    ELSE (IF Head(cmds).op = "spawn" THEN <<Head(cmds).bundle>> ELSE <<>>)
         \o Spawned(Tail(cmds))

\* the world after the queued commands are applied
world_after(world, cmds) ==
    LET gone == {cmds[i].entity : i \in {j \in 1..Len(cmds) : cmds[j].op = "despawn"}}
    IN  Survivors(world, gone, 1) \o Spawned(cmds)

\* one run of ui_system.  pick: the file chosen in the Open dialog, or NoPath;
\* settings_open: the Settings menu is shown, its slider at d; reload: the
\* Reload button of the Model Info window is pressed
ui_system ==
    \E pick \in Paths \cup {NoPath}, settings_open \in BOOLEAN,
       d \in SLIDER_MIN..SLIDER_MAX, reload \in BOOLEAN :
        /\ pc \in {"app", "app_load"}
        /\ pc' = IF pc = "app" THEN "app_ui" ELSE "app_flush"
        /\ settings_open \/ d = octree_depth
        /\ path' = IF pick # NoPath THEN pick ELSE path
        /\ octree_depth' = d
        /\ loaded' = IF pick # NoPath THEN FALSE
                     ELSE IF d # octree_depth /\ path' # NoPath THEN FALSE
                     ELSE IF reload /\ path' # NoPath THEN FALSE
                     ELSE loaded
        /\ label' = IF settings_open \/ path' # NoPath
                       THEN voxel_size_of(octree_depth')
                       ELSE NoLabel
        /\ last_run' = [system |-> "ui_system",
                        clicks |-> (IF pick # NoPath THEN {"Open"} ELSE {}) \cup
                                   (IF reload /\ path' # NoPath THEN {"Reload"} ELSE {}),
                        result |-> "None"]
        /\ UNCHANGED <<load_vars, entities, commands, voxel_size, positions, indices,
                       tri, filled_voxels, pending, cur, face, vertices, normals, uvs,
                       mesh_indices>>

\* load_model_system with `loaded = true` set on the failure branch as well
load_model_system_loaded_on_failure ==
    \E ok \in BOOLEAN, n \in 0..MaxModels :
        /\ pc \in {"app", "app_ui"}
        /\ pc' = IF pc = "app" THEN "app_load" ELSE "app_flush"
        /\ IF path # NoPath /\ ~loaded
           THEN /\ commands' = commands \o despawn_all(entities) \o
                        (IF ok THEN [k \in 1..n |-> spawn_command(
                                        [path |-> path, octree_depth |-> octree_depth,
                                         voxel_size |-> local_voxel_size(octree_depth)])]
                         ELSE <<>>)
                /\ voxel_size' = IF ok /\ n > 0 THEN local_voxel_size(octree_depth)
                                  ELSE voxel_size
                /\ loaded' = TRUE
                /\ last_run' = [system |-> "load_model_system", clicks |-> {},
                                result |-> IF ok THEN "loaded" ELSE "failed"]
           ELSE /\ last_run' = [system |-> "load_model_system", clicks |-> {},
                                result |-> "returned"]
                /\ UNCHANGED <<commands, voxel_size, loaded>>
        /\ UNCHANGED <<load_vars, path, entities, label, octree_depth, positions,
                       indices, tri, filled_voxels, pending, cur, face, vertices,
                       normals, uvs, mesh_indices>>

\* one run of load_model_system.  Without a path, or with the model loaded,
\* it returns at once.  ok: tobj::load_obj succeeds, with n sub-meshes.  The
\* despawns and spawns are queued; the world changes when they are applied
load_model_system ==
    \E ok \in BOOLEAN, n \in 0..MaxModels :
        /\ pc \in {"app", "app_ui"}
        /\ pc' = IF pc = "app" THEN "app_load" ELSE "app_flush"
        /\ IF path # NoPath /\ ~loaded
           THEN /\ commands' = commands \o despawn_all(entities) \o
                        (IF ok THEN [k \in 1..n |-> spawn_command(
                                        [path |-> path, octree_depth |-> octree_depth,
                                         voxel_size |-> local_voxel_size(octree_depth)])]
                         ELSE <<>>)
                /\ voxel_size' = IF ok /\ n > 0 THEN local_voxel_size(octree_depth)
                                  ELSE voxel_size
                /\ loaded' = ok
                /\ last_run' = [system |-> "load_model_system", clicks |-> {},
                                result |-> IF ok THEN "loaded" ELSE "failed"]
           ELSE /\ last_run' = [system |-> "load_model_system", clicks |-> {},
                                result |-> "returned"]
                /\ UNCHANGED <<commands, voxel_size, loaded>>
        /\ UNCHANGED <<load_vars, path, entities, label, octree_depth, positions,
                       indices, tri, filled_voxels, pending, cur, face, vertices,
                       normals, uvs, mesh_indices>>

\* the end of the Update schedule: the queued commands are applied
apply_deferred ==
    /\ pc = "app_flush"
    /\ pc' = "app"
    /\ entities' = world_after(entities, commands)
    /\ commands' = <<>>
    /\ last_run' = [system |-> "apply_deferred", clicks |-> {}, result |-> "None"]
    /\ UNCHANGED <<cvm_vars, load_vars, path, loaded, label>>

InitApp ==
    /\ pc = "app"
    /\ octree_depth = DEFAULT_DEPTH
    /\ CvmIdle
    /\ LoadIdle
    /\ AppIdle

NextApp == ui_system \/ load_model_system \/ apply_deferred

SpecApp == InitApp /\ [][NextApp]_vars

LoadVoxelize ==
    /\ pc = "normalized"
    /\ pc' = "voxelize"
    /\ sub' = 1
    /\ UNCHANGED <<cvm_vars, app_vars, loaded_obj, obj_indices, models, min_xyz,
                   max_xyz, center_xyz, max_dimension, scale_factor, vtx>>

\* create_voxelized_mesh(&model, voxel_settings.octree_depth) is called
LoadCallCvm ==
    /\ pc = "voxelize"
    /\ sub <= Len(models)
    /\ pc' = "call"
    /\ positions' = models[sub]
    /\ indices' = obj_indices[sub]
    /\ UNCHANGED <<load_vars, app_vars, octree_depth, voxel_size, tri, filled_voxels,
                   pending, cur, face, vertices, normals, uvs, mesh_indices>>

\* the spawn of a ModelMesh entity with the returned mesh is queued
LoadSpawn ==
    /\ pc = "done"
    /\ pc' = "voxelize"
    /\ commands' = Append(commands, spawn_command(
                          [path |-> path, octree_depth |-> octree_depth,
                           voxel_size |-> voxel_size,
                           mesh |-> [vertices |-> vertices, normals |-> normals,
                                     uvs |-> uvs, indices |-> mesh_indices]]))
    /\ sub' = sub + 1
    /\ UNCHANGED <<cvm_vars, path, loaded, entities, label, last_run, loaded_obj, obj_indices,
                   models, min_xyz, max_xyz, center_xyz, max_dimension, scale_factor,
                   vtx>>

\* every sub-mesh is done: model_resource.loaded = true; the run of the system ends
LoadFinish ==
    /\ pc = "voxelize"
    /\ sub > Len(models)
    /\ pc' = "app_flush"
    /\ loaded' = TRUE
    /\ UNCHANGED <<cvm_vars, load_vars, path, entities, commands, label, last_run>>

\* a sub-mesh far from the others, the sub-mesh of a small triangle with a
\* far vertex no triangle uses, the same with a degenerate triangle, and
\* the sub-mesh of no vertex
LoadMeshPool ==
    { [positions |-> <<>>, indices |-> <<>>],
      [positions |-> <<R(19), R(19), R(19)>>, indices |-> <<>>],
      [positions |-> <<R(0), R(0), R(0), R(1), R(0), R(0), R(0), R(1), R(0),
                       R(19), R(19), R(19)>>,
       indices |-> <<0, 1, 2>>],
      [positions |-> <<R(0), R(0), R(0), R(2), R(2), R(2), R(19), R(0), R(0)>>,
       indices |-> <<0, 1, 1>>] }

MaxLoadMeshes == 2

InitLoad ==
    /\ pc = "loaded_obj"
    /\ octree_depth = 1
    /\ CvmIdle
    /\ path = "a.obj"
    /\ loaded = FALSE
    /\ entities = <<>>
    /\ commands = <<>>
    /\ label = NoLabel
    /\ last_run = NoRun
    /\ \E n \in 0..MaxLoadMeshes : \E ms \in [1..n -> LoadMeshPool] :
          /\ loaded_obj = [k \in 1..n |-> ms[k].positions]
          /\ obj_indices = [k \in 1..n |-> ms[k].indices]
    /\ models = loaded_obj
    /\ min_xyz = <<NaN, NaN, NaN>>
    /\ max_xyz = <<NaN, NaN, NaN>>
    /\ center_xyz = <<NaN, NaN, NaN>>
    /\ max_dimension = NaN
    /\ scale_factor = NaN
    /\ sub = 1
    /\ vtx = 0

NextLoad ==
    \/ NormBegin \/ BBoxStep \/ BBoxNextModel \/ BBoxDone
    \/ TransformStep \/ TransformNextModel \/ TransformDone
    \/ LoadVoxelize \/ LoadCallCvm
    \/ CvmBegin \/ RasterStep \/ RasterDone \/ VoxelStep \/ CvmReturn
    \/ LoadSpawn \/ LoadFinish \/ apply_deferred

SpecLoad == InitLoad /\ [][NextLoad]_vars

\* the loaded model has no vertex and no triangle
EmptyModel ==
    \A s \in 1..Len(loaded_obj) : loaded_obj[s] = <<>> /\ obj_indices[s] = <<>>

EmptyMesh == [vertices |-> <<>>, normals |-> <<>>, uvs |-> <<>>, indices |-> <<>>]

(***************************************************************************)
(* C11: for a model with zero vertices and zero triangles the normalizer   *)
(* changes no position, the VoxelSet of every create_voxelized_mesh call   *)
(* is empty, every returned mesh has empty position, normal, uv and index  *)
(* sequences, and the load runs to its end with one mesh per sub-mesh.     *)
(***************************************************************************)
C11_EmptyModelEmptyMesh ==
    EmptyModel =>
        /\ models = loaded_obj
        /\ filled_voxels = {}
        /\ vertices = <<>> /\ normals = <<>> /\ uvs = <<>> /\ mesh_indices = <<>>
        /\ \A k \in 1..Len(commands) : commands[k].bundle.mesh = EmptyMesh
        /\ \A k \in 1..Len(entities) : entities[k].mesh = EmptyMesh
        /\ pc = "app" => loaded /\ Len(entities) = Len(loaded_obj)

\* the load of two empty sub-meshes has finished and its spawns are applied
C11_Witness ==
    /\ pc = "app"
    /\ EmptyModel
    /\ Len(loaded_obj) = 2
    /\ Len(entities) = 2
    /\ entities[2].mesh = EmptyMesh
    /\ scale_factor = R(1)

(***************************************************************************)
(* SpecDepth: the triangle loop of create_voxelized_mesh over the depths   *)
(* of DepthInputs, which hold the one depth whose `1 << depth` is negative *)
(***************************************************************************)
\* the octree_depth arguments: two depths of the slider and the depth at which
\* the i32 shift reaches the sign bit
DepthInputs == {1, 2, 31}

\* vertices with dyadic coordinates within the working volume
DepthVertexPool ==
    << Vec3(R(0), R(0), R(0)),              \* 0
       Vec3(R(1), R(0), R(0)),              \* 1
       Vec3(R(0), R(1), R(0)),              \* 2
       Vec3(R(0), R(0), R(1)),              \* 3
       Vec3(<<-1, 2>>, <<1, 2>>, R(-1)),    \* 4
       Vec3(R(-1), R(-1), <<1, 2>>) >>      \* 5

DepthVertexTable ==
    [i \in 1..(3 * Len(DepthVertexPool)) |->
        DepthVertexPool[((i - 1) \div 3) + 1][((i - 1) % 3) + 1]]

DepthTrianglePool ==
    { <<0, 1, 2>>, <<1, 2, 3>>, <<4, 5, 0>>, <<3, 4, 1>>, <<2, 2, 5>> }

DepthIndexLists ==
    UNION { {Flatten(ts) : ts \in [1..n -> DepthTrianglePool]} : n \in 0..MaxTris }

InitDepth ==
    /\ LoadIdle
    /\ AppIdle
    /\ pc = "call"
    /\ octree_depth \in DepthInputs
    /\ voxel_size = NaN
    /\ positions = DepthVertexTable
    /\ indices \in DepthIndexLists
    /\ tri = 0
    /\ filled_voxels = {}
    /\ pending = {}
    /\ cur = NoVoxel
    /\ face = 0
    /\ vertices = <<>>
    /\ normals = <<>>
    /\ uvs = <<>>
    /\ mesh_indices = <<>>

NextDepth == CvmBegin \/ RasterStep \/ RasterDone

SpecDepth == InitDepth /\ [][NextDepth]_vars

\* the configured voxel size is zero or negative
NonPositiveVoxelSize == RLe(voxel_size_of(octree_depth), R(0))

\* C12: a run whose configured voxel size is zero or negative stops at its
\* entry: it never reaches the triangle loop, which divides by the voxel size
\* and iterates over the range computed from it, nor anything after it.
C12_NonPositiveSizeFailsFast == NonPositiveVoxelSize => pc = "call"

(***************************************************************************)
(* C13: while and after the triangle loop every component of every voxel   *)
(* of the VoxelSet lies in [-M, M], M = trunc(COORDINATE_RANGE / s); and a *)
(* step of the loop on a triangle whose range floor(min / s)..ceil(max / s)*)
(* lies wholly outside [-M, M] on some axis leaves the VoxelSet as it was  *)
(* and the loop goes on to the next triangle.                              *)
(***************************************************************************)
\* the unbounded voxel range of triangle t on axis a
RangeLo(t, a) == AsI32(RFloor(RDiv(RMin(t[1][a], RMin(t[2][a], t[3][a])), voxel_size)))

RangeHi(t, a) == AsI32(RCeil(RDiv(RMax(t[1][a], RMax(t[2][a], t[3][a])), voxel_size)))

RangeOutside(t) == \E a \in 1..3 : RangeLo(t, a) > MaxIdx \/ RangeHi(t, a) < -MaxIdx

RangePartlyOutside(t) ==
    /\ ~RangeOutside(t)
    /\ \E a \in 1..3 : RangeHi(t, a) > MaxIdx \/ RangeLo(t, a) < -MaxIdx

C13_VoxelsWithinBound ==
    /\ [](pc \in {"raster", "extract"} =>
            \A v \in filled_voxels : \A a \in 1..3 : -MaxIdx <= v[a] /\ v[a] <= MaxIdx)
    /\ [][(pc = "raster" /\ tri < Len(indices) \div 3 /\ RangeOutside(TriangleAt(tri)))
            => (filled_voxels' = filled_voxels /\ pc' = "raster" /\ tri' = tri + 1)]_vars

\* a triangle reaching out of the working volume has filled voxels up to the
\* bound, and a triangle wholly outside has been processed after it
C13_Witness ==
    /\ pc = "raster"
    /\ tri = 2
    /\ RangePartlyOutside(TriangleAt(0))
    /\ RangeOutside(TriangleAt(1))
    /\ \E v \in filled_voxels : \E a \in 1..3 : v[a] = MaxIdx

(***************************************************************************)
(* C14: a step of the triangle loop on a triangle of non-zero area adds to *)
(* the VoxelSet exactly the coordinates (x, y, z) with every component in  *)
(* the range floor(bbox_min / s)..ceil(bbox_max / s) cut to [-M, M] whose  *)
(* sample point ((x + 0.5) s, (y + 0.5) s, (z + 0.5) s) is within 0.87 s   *)
(* of the plane of the triangle.  Nothing else decides: a sample point     *)
(* that projects outside the triangle is inserted like any other.          *)
(***************************************************************************)
SamplePoint(c) ==
    [a \in 1..3 |-> RMul(RAdd(R(c[a]), <<1, 2>>), voxel_size)]

\* the bounded range of triangle t on axis a
BoundedRange(t, a) == MaxI(RangeLo(t, a), -MaxIdx)..MinI(RangeHi(t, a), MaxIdx)

\* |dot(sample - p1, N / |N|)| <= 0.87 s for the plane normal N, as
\* dot(sample - p1, n)^2 <= (0.87 s)^2 |n|^2 with n the direction of N
NearPlane(c, t) ==
    LET n == unit_of(Cross(VSub(t[2], t[1]), VSub(t[3], t[1])))
        d == Dot(VSub(SamplePoint(c), t[1]), n.dir)
        r == RMul(<<87, 100>>, voxel_size)
    IN  RLe(RMul(d, d), RMul(RMul(r, r), n.len2))

\* the projection of the sample point onto the plane lies in the triangle:
\* it is on the inner side of each edge
ProjectsInside(c, t) ==
    LET N == Cross(VSub(t[2], t[1]), VSub(t[3], t[1]))
        q == SamplePoint(c)
        side(i, j) == Dot(N, Cross(VSub(t[j], t[i]), VSub(q, t[i])))
    IN  /\ RLe(R(0), side(1, 2))
        /\ RLe(R(0), side(2, 3))
        /\ RLe(R(0), side(3, 1))

InsertedBy(t) ==
    { c \in BoundedRange(t, 1) \X BoundedRange(t, 2) \X BoundedRange(t, 3) : NearPlane(c, t) }

C14_InsertedIffNearPlane ==
    [][(pc = "raster" /\ tri < Len(indices) \div 3 /\ ~ZeroArea(TriangleAt(tri)))
          => filled_voxels' = filled_voxels \cup InsertedBy(TriangleAt(tri))]_vars

\* a triangle of non-zero area has been processed: a voxel whose sample point
\* projects outside the triangle is in the set, and a voxel of the range
\* whose sample point is too far from the plane is not
C14_Witness ==
    /\ pc = "raster"
    /\ tri = 1
    /\ ~ZeroArea(TriangleAt(0))
    /\ \E c \in filled_voxels : ~ProjectsInside(c, TriangleAt(0))
    /\ \E c \in BoundedRange(TriangleAt(0), 1) \X BoundedRange(TriangleAt(0), 2)
                 \X BoundedRange(TriangleAt(0), 3) : c \notin filled_voxels

(***************************************************************************)
(* The lifecycle of the displayed result under SpecApp                     *)
(***************************************************************************)
\* every entity of the world w is built from the current path at the current depth
AllCurrent(w) ==
    \A k \in 1..Len(w) : w[k].path = path /\ w[k].octree_depth = octree_depth

\* the entities a queued command despawns
Despawned(cmds) == {cmds[i].entity : i \in {j \in 1..Len(cmds) : cmds[j].op = "despawn"}}

\* the step is a run of ui_system in which a file is chosen, Reload is
\* pressed, or the depth changes while a path is set
UiInvalidates ==
    /\ last_run'.system = "ui_system"
    /\ pc' # pc
    /\ \/ "Open" \in last_run'.clicks
       \/ "Reload" \in last_run'.clicks
       \/ octree_depth' # octree_depth /\ path' # NoPath

\* the step is a run of load_model_system with the given result
LoadRun(result) ==
    /\ last_run'.system = "load_model_system"
    /\ pc' # pc
    /\ last_run'.result = result

\* C15 as stated: in every state with loaded = true the entities of the world
\* are built from the current path at the current depth.
C15_LoadedMeansCurrent == loaded => AllCurrent(entities)

(***************************************************************************)
(* C15: choosing a file, pressing Reload, or changing the depth while a    *)
(* path is set, sets loaded to false.  A load_model_system run that loads  *)
(* queues the despawn of every entity of the world and the spawn of meshes *)
(* built from the current path at the current depth, and sets loaded to    *)
(* true; the world changes when the update ends and the queue is applied.  *)
(* So whenever loaded is true, the world as the queued commands leave it   *)
(* holds only entities of the current path and depth, and between updates, *)
(* the queue empty, that is the world itself.                              *)
(***************************************************************************)
C15_ReplacedAtEndOfUpdate ==
    /\ [](loaded => AllCurrent(world_after(entities, commands)))
    /\ [](pc = "app" => commands = <<>> /\ (loaded => AllCurrent(entities)))
    /\ [][UiInvalidates => ~loaded']_vars
    /\ [][LoadRun("loaded") =>
            /\ ~loaded /\ loaded'
            /\ Despawned(commands') = 1..Len(entities)
            /\ Spawned(commands') # <<>> => voxel_size' = Rat(2, 2 ^ octree_depth)
            /\ \A k \in 1..Len(Spawned(commands')) :
                  /\ Spawned(commands')[k].path = path
                  /\ Spawned(commands')[k].octree_depth = octree_depth]_vars

\* a load has run while the world holds the result of an earlier depth:
\* loaded is true, the earlier entities are still there, their despawn and
\* the spawn of two meshes of the current depth are queued
C15_Witness ==
    /\ pc = "app_flush"
    /\ last_run.system = "load_model_system"
    /\ last_run.result = "loaded"
    /\ loaded
    /\ Len(entities) = 2
    /\ entities[1].path = path
    /\ entities[1].octree_depth # octree_depth
    /\ Len(Spawned(commands)) = 2

(***************************************************************************)
(* C16: a load_model_system run in which tobj::load_obj fails queues the   *)
(* despawn of every entity of the world and no spawn, and leaves loaded    *)
(* false and the path as it is: the queue applied, no entity is left.      *)
(* With a path set and loaded false a run never returns early, so the load *)
(* is tried again in every update; loaded becomes true only in a run that  *)
(* loaded, and a path once set is never unset.                             *)
(***************************************************************************)
C16_FailedLoadClearsAndRetries ==
    /\ [][LoadRun("failed") =>
            /\ ~loaded'
            /\ path' = path
            /\ Despawned(commands') = 1..Len(entities)
            /\ Spawned(commands') = <<>>
            /\ world_after(entities', commands') = <<>>]_vars
    /\ [][(last_run'.system = "load_model_system" /\ pc' # pc /\ path # NoPath /\ ~loaded)
            => last_run'.result \in {"loaded", "failed"}]_vars
    /\ [][(~loaded /\ loaded') => LoadRun("loaded")]_vars
    /\ [][path # NoPath => path' # NoPath]_vars
    /\ [](last_run.result = "failed" => ~loaded /\ path # NoPath)

\* a load has failed while the world holds an earlier result: the despawn of
\* each of its entities is queued, nothing else, and loaded is false
C16_Witness ==
    /\ last_run.system = "load_model_system"
    /\ last_run.result = "failed"
    /\ pc = "app_load"
    /\ ~loaded
    /\ path # NoPath
    /\ entities # <<>>
    /\ Len(commands) = Len(entities)
====
